---- MODULE Spec2Model ----
(***************************************************************************)
(* A model of the SQL training assistant of src/app.py.                    *)
(*                                                                         *)
(* The program is a Streamlit script: every user event runs main() from    *)
(* top to bottom against st.session_state, and st.rerun() ends the run and *)
(* starts another one with no button pressed.  One action below is one     *)
(* script run, named after the event that triggers it.  The state is       *)
(* st.session_state; the answers of the generative-text service are the    *)
(* environment's choice and are drawn from GenResponses and                *)
(* ValidatorResponses.                                                     *)
(*                                                                         *)
(* Texts of several lines are sequences of lines (each line without its    *)
(* final "\n").  Python's None is the value None.                          *)
(***************************************************************************)
EXTENDS Naturals, Integers, Sequences, FiniteSets, TLC

VARIABLES
    industry,           \* st.session_state.industry
    current_question,   \* st.session_state.current_question
    current_solution,   \* st.session_state.current_solution
    difficulty,         \* st.session_state.difficulty
    user_stats,         \* st.session_state.user_stats
    rerun,              \* st.rerun() was called and the next run has not happened yet
    out,                \* what the last script run called and displayed
    generation          \* the arguments and the result of the last question generation

vars == <<industry, current_question, current_solution, difficulty, user_stats,
          rerun, out, generation>>

\* Bound of the model: submissions are accepted while total_attempts is below it.
MaxAttempts == 2

None == "<None>"

\* Python truthiness of an Optional[str]: None and "" are falsy.
falsy(x) == x = None \/ x = ""

-----------------------------------------------------------------------------
(* SQLTrainer.__init__: the schema catalog.  A Python dict keeps insertion *)
(* order, so "tables" is the sequence of its (table, columns) items.       *)

industry_schemas ==
    [logistics |->
        [description |-> "Logistics and warehouse management system tracking inventory, shipments, and carriers.",
         tables |-> << <<"warehouses", <<"warehouse_id", "name", "location", "capacity">> >>,
                       <<"inventory", <<"item_id", "warehouse_id", "product_name", "quantity", "reorder_point">> >>,
                       <<"shipments", <<"shipment_id", "origin_warehouse", "destination", "status", "carrier_id">> >>,
                       <<"carriers", <<"carrier_id", "name", "service_level", "cost_per_mile">> >> >>,
         relationships |-> <<"inventory.warehouse_id -> warehouses.warehouse_id",
                             "shipments.origin_warehouse -> warehouses.warehouse_id",
                             "shipments.carrier_id -> carriers.carrier_id">>],
     healthcare |->
        [description |-> "Healthcare management system tracking patients, appointments, and treatments.",
         tables |-> << <<"patients", <<"patient_id", "name", "dob", "insurance_id">> >>,
                       <<"appointments", <<"appointment_id", "patient_id", "doctor_id", "date", "status">> >>,
                       <<"doctors", <<"doctor_id", "name", "specialty", "department">> >>,
                       <<"treatments", <<"treatment_id", "patient_id", "doctor_id", "diagnosis", "date">> >> >>,
         relationships |-> <<"appointments.patient_id -> patients.patient_id",
                             "appointments.doctor_id -> doctors.doctor_id",
                             "treatments.patient_id -> patients.patient_id">>]]

\* list(trainer.industry_schemas.keys())
Industries == DOMAIN industry_schemas

\* The options of both difficulty sliders, and the keys of difficulty_adjustments.
Difficulties == {"easy", "medium", "hard"}

\* str.title() on the catalog's keys.
title(s) == CASE s = "logistics" -> "Logistics"
              [] s = "healthcare" -> "Healthcare"
              [] OTHER -> s

-----------------------------------------------------------------------------
(* SQLTrainer.get_schema_prompt *)

\* The prefix of a column line: two spaces, the box-drawing characters U+2514
\* U+2500 (written "|_" here, strings being ASCII) and a space.
column_prefix == "  |_ "

\* for col in columns: prompt += f"  {U+2514}{U+2500} {col}\n"
column_lines(columns) == [i \in 1..Len(columns) |-> column_prefix \o columns[i]]

\* for table, columns in schema["tables"].items(): ...
RECURSIVE table_lines(_)
table_lines(tables) ==
    IF tables = <<>> THEN <<>>
    ELSE <<"- " \o Head(tables)[1]>> \o column_lines(Head(tables)[2])
         \o table_lines(Tail(tables))

\* for rel in schema["relationships"]: prompt += f"- {rel}\n"
relationship_lines(rels) == [i \in 1..Len(rels) |-> "- " \o rels[i]]

\* Mutant: the relationships are listed before the tables.
get_schema_prompt_relationships_first(ind) ==
    IF ind \notin DOMAIN industry_schemas
    THEN <<"Industry not found">>
    ELSE LET schema == industry_schemas[ind] IN
         <<"Database Schema for " \o title(ind) \o ":", "",
           "Description: " \o schema.description, "",
           "Relationships:">>
         \o relationship_lines(schema.relationships)
         \o <<"", "Tables:">>
         \o table_lines(schema.tables)

get_schema_prompt(ind) ==
    IF ind \notin DOMAIN industry_schemas
    THEN <<"Industry not found">>
    ELSE LET schema == industry_schemas[ind] IN
         <<"Database Schema for " \o title(ind) \o ":", "",
           "Description: " \o schema.description, "",
           "Tables:">>
         \o table_lines(schema.tables)
         \o <<"", "Relationships:">>
         \o relationship_lines(schema.relationships)

-----------------------------------------------------------------------------
(* SQLTrainer.generate_stakeholder_question *)

\* The f-string's lookup difficulty_adjustments[difficulty] is outside the try
\* block: it is defined for these three keys only.
difficulty_adjustments ==
    [easy |-> "Use only simple SELECT statements with basic WHERE clauses. No joins required.",
     medium |-> "Use 1-2 joins and basic aggregation functions like COUNT, SUM.",
     hard |-> "Use multiple joins, subqueries, and advanced aggregation functions."]

(* The text of a generation response is a string, and the two regular      *)
(* expressions are computed on its characters.                              *)
label_question == "QUESTION: "
label_sql == "SQL: "
label_sql_bare == "SQL:"     \* "SQL:" followed by no space

QuestionA == "List all warehouses with capacity over 10000"
SolutionA == "SELECT name FROM warehouses WHERE capacity > 10000"

\* The characters of t from the i-th to the j-th; "" when j < i.
slice(t, i, j) == SubSeq(t, i, j)

\* The least index i >= from at which pattern occurs in t; 0 when none.
RECURSIVE index_of(_, _, _)
index_of(t, pattern, from) ==
    IF from + Len(pattern) - 1 > Len(t) THEN 0
    ELSE IF slice(t, from, from + Len(pattern) - 1) = pattern THEN from
    ELSE index_of(t, pattern, from + 1)

\* The characters str.strip() removes from both ends: those of str.isspace()
\* that a string here can hold (up to U+00FF).  In the order written: space,
\* newline, tab, carriage return, form feed, then, as the characters
\* themselves, U+000B (vertical tab), U+001C, U+001D, U+001E, U+001F (the
\* four separators), U+0085 (next line) and U+00A0 (no-break space).  The
\* spaces above U+00FF (U+1680, U+2000 to U+200A, U+2028, U+2029, U+202F,
\* U+205F, U+3000) are not characters of these strings.
whitespace ==
    {" ", "\n", "\t", "\r", "\f",
     "", "", "", "", "", "", " "}

RECURSIVE lstrip(_)
lstrip(t) ==
    IF Len(t) > 0 /\ slice(t, 1, 1) \in whitespace
    THEN lstrip(slice(t, 2, Len(t))) ELSE t

RECURSIVE rstrip(_)
rstrip(t) ==
    IF Len(t) > 0 /\ slice(t, Len(t), Len(t)) \in whitespace
    THEN rstrip(slice(t, 1, Len(t) - 1)) ELSE t

\* str.strip()
strip(t) == rstrip(lstrip(t))

\* re.search(r'QUESTION: (.*?)\nSQL:', content, re.DOTALL): the first
\* "QUESTION: " and the nearest "\nSQL:" after it; group(1) is what lies
\* between, newlines included.
re_search_question(content) ==
    LET close == "\n" \o label_sql_bare
        i == index_of(content, label_question, 1)
        start == i + Len(label_question)
        j == IF i = 0 THEN 0 ELSE index_of(content, close, start)
    IN  IF j = 0 THEN [found |-> FALSE, group |-> ""]
        ELSE [found |-> TRUE, group |-> slice(content, start, j - 1)]

\* re.search(r'SQL: (.*?)$', content, re.DOTALL): the first "SQL: " and the
\* rest of the text, up to the first place where `$` matches: without
\* re.MULTILINE that is the end of the text or, when the text ends with a
\* newline, the place before that newline.
re_search_sql(content) ==
    LET i == index_of(content, label_sql, 1)
        start == i + Len(label_sql)
        n == Len(content)
        end == IF n >= start /\ slice(content, n, n) = "\n" THEN n - 1 ELSE n
    IN  IF i = 0 THEN [found |-> FALSE, group |-> ""]
        ELSE [found |-> TRUE, group |-> slice(content, start, end)]

\* What client.messages.create does: it raises, or returns a text.
GenResponses ==
    { [kind |-> "api_error", content |-> ""],
      [kind |-> "text", content |-> label_question \o QuestionA \o "\n" \o label_sql \o SolutionA \o "\n"],
      [kind |-> "text", content |-> label_question \o QuestionA],
      [kind |-> "text", content |-> label_sql \o SolutionA],
      [kind |-> "text", content |-> label_question \o QuestionA \o "\n" \o label_sql_bare \o SolutionA],
      [kind |-> "text", content |-> label_question \o QuestionA \o "\n" \o label_sql],
      [kind |-> "text", content |-> label_question \o "\n" \o label_sql \o SolutionA \o "\n"] }

\* The pair the except branch returns.
generation_failure ==
    [question |-> "Error generating question", solution |-> "", error |-> TRUE]

\* Lines 143-151: what the call returns for the service's `response`; error
\* says that the except branch ran (st.error was shown).
parse_response(response) ==
    LET q == re_search_question(response.content)
        s == re_search_sql(response.content)
    IN  IF response.kind = "api_error" THEN generation_failure
        ELSE IF ~q.found THEN generation_failure     \* None.group(1)
        ELSE IF ~s.found THEN generation_failure     \* None.group(1)
        ELSE [question |-> strip(q.group), solution |-> strip(s.group),
              error |-> FALSE]

\* parse_response on the responses of GenResponses, computed once.
parsed_GenResponses == [response \in GenResponses |-> parse_response(response)]

\* What a call returns whose request carried `adjustment` and whose response
\* gave r.
generation_result(r, adjustment) ==
    [question |-> r.question, solution |-> r.solution, error |-> r.error,
     adjustment |-> adjustment]

\* The result is (question, solution), with error as in parse_response.  The
\* request carries schema_prompt and adjustment; what the service answers to
\* it is the environment's choice, `response`.
generate_stakeholder_question(ind, diff, response) ==
    LET schema_prompt == get_schema_prompt(ind)
    IN  generation_result(IF response \in DOMAIN parsed_GenResponses
                          THEN parsed_GenResponses[response]
                          ELSE parse_response(response),
                          difficulty_adjustments[diff])

-----------------------------------------------------------------------------
(* SQLTrainer.validate_sql *)

JudgementKeys == {"is_correct", "feedback", "hints", "performance_notes"}

(* What client.messages.create does for a validation request: it raises    *)
(* (api_error), or returns a text that is no JSON (not_json), a JSON value *)
(* that is no object (array), or a JSON object with the keys `keys`, whose *)
(* is_correct, when present, is the boolean is_correct.                    *)
ValidatorResponses ==
    { [kind |-> k, keys |-> {}, is_correct |-> FALSE] : k \in {"api_error", "not_json", "array"} }
    \cup
    { [kind |-> "object", keys |-> JudgementKeys \ {"is_correct"}, is_correct |-> FALSE] }
    \cup
    { [kind |-> "object", keys |-> ks, is_correct |-> b] :
        ks \in { JudgementKeys, JudgementKeys \ {"hints"} },
        b \in BOOLEAN }

\* The dict the except branch returns.
error_feedback ==
    [keys |-> JudgementKeys, is_correct |-> FALSE,
     feedback |-> "Error occurred during validation"]

\* The text under the "feedback" key of a judgement the service returned.
service_feedback == "feedback of the service"

\* Mutant: the attempt is not counted.
count_attempt_forgotten(stats) == stats

\* st.session_state.user_stats['total_attempts'] += 1
count_attempt(stats) == [stats EXCEPT !.total_attempts = @ + 1]

\* Mutant: every judged attempt is counted as correct.
count_correct_always(stats, is_correct) ==
    [stats EXCEPT !.correct_answers = @ + 1]

\* if feedback_dict['is_correct']: ...['correct_answers'] += 1
count_correct(stats, is_correct) ==
    IF is_correct THEN [stats EXCEPT !.correct_answers = @ + 1] ELSE stats

\* Mutant: the history keeps the latest entry only.
append_history_latest_only(stats, question, query, is_correct) ==
    [stats EXCEPT !.questions_history =
        <<[question |-> question, user_query |-> query, correct |-> is_correct]>>]

\* ...['questions_history'].append({...}); the timestamp is left out.
append_history(stats, question, query, is_correct) ==
    [stats EXCEPT !.questions_history =
        Append(@, [question |-> question, user_query |-> query,
                   correct |-> is_correct])]

\* The result is the returned dict (feedback), the statistics as the call
\* leaves them (user_stats) and whether the except branch ran (error).  The
\* request carries schema_prompt; what the service answers to it is the
\* environment's choice, `response`.
validate_sql(query, ind, question, correct_sql, stats, response) ==
    LET schema_prompt == get_schema_prompt(ind)
        failed(st) == [feedback |-> error_feedback, user_stats |-> st,
                       error |-> TRUE]
    IN  IF response.kind \in {"api_error", "not_json"}
        THEN failed(stats)                      \* create or json.loads raised
        ELSE IF response.kind = "array" \/ "is_correct" \notin response.keys
        THEN failed(count_attempt(stats))       \* feedback_dict['is_correct'] raised
        ELSE [feedback |-> [keys |-> response.keys,
                            is_correct |-> response.is_correct,
                            feedback |-> service_feedback],
              user_stats |-> append_history(
                                count_correct(count_attempt(stats), response.is_correct),
                                question, query, response.is_correct),
              error |-> FALSE]

-----------------------------------------------------------------------------
(* main: one script run.                                                    *)

\* The text area's values: the empty text and a query.
Queries == {"", "UPDATE t SET x=1"}

no_feedback == [keys |-> {}, is_correct |-> FALSE, feedback |-> ""]

\* What a run that calls nothing and displays nothing leaves in out.
quiet(op) ==
    [op |-> op,
     input |-> None,            \* the text submitted or the level the slider moved to
     generated |-> FALSE,       \* generate_stakeholder_question was called
     generation_error |-> FALSE,\* ... and showed "Error generating question: ..."
     validated |-> FALSE,       \* validate_sql was called (the remote validator)
     question |-> None,         \* ... with this question
     reference |-> None,        \* ... and this correct_sql
     validation_error |-> FALSE,\* ... and showed "Error validating SQL: ..."
     has_feedback |-> FALSE,    \* validate_sql returned the dict `feedback`
     feedback |-> no_feedback,
     raised |-> FALSE,          \* the run ended with an exception main does not catch
     solution_shown |-> None,   \* the text st.code displayed
     rendered |-> {}]           \* the industries get_schema_prompt was called with

\* Lines 309-314: the pair r that generate_stakeholder_question returned is
\* stored as the current question and solution.
store_generated(r) ==
    [question |-> r.question, solution |-> r.solution,
     generated |-> TRUE, error |-> r.error, rendered |-> {industry},
     generation |-> [industry |-> industry, difficulty |-> difficulty,
                     question |-> r.question, solution |-> r.solution,
                     error |-> r.error]]

\* Mutant: a generation stores the question and keeps the stored solution.
new_question_step_keeps_solution(button, g) ==
    IF button \/ falsy(current_question)
    THEN [store_generated(generate_stakeholder_question(industry, difficulty, g))
            EXCEPT !.solution = current_solution]
    ELSE [question |-> current_question, solution |-> current_solution,
          generated |-> FALSE, error |-> FALSE, rendered |-> {},
          generation |-> generation]

\* Lines 306-314: if st.button("Get New Question") or not current_question:
\* generate and store the pair.  `button` is whether the button was clicked.
new_question_step(button, g) ==
    IF button \/ falsy(current_question)
    THEN store_generated(generate_stakeholder_question(industry, difficulty, g))
    ELSE [question |-> current_question, solution |-> current_solution,
          generated |-> FALSE, error |-> FALSE, rendered |-> {},
          generation |-> generation]

\* Lines 338-343 read feedback["feedback"] and feedback["performance_notes"]
\* or feedback["hints"]: a missing key is a KeyError that nothing catches.
display_feedback_raises(feedback) ==
    IF feedback.is_correct
    THEN ~({"feedback", "performance_notes"} \subseteq feedback.keys)
    ELSE ~({"feedback", "hints"} \subseteq feedback.keys)

\* The pre-check the specification describes (the program has none): a query
\* passes when it holds, whatever their case, both a SELECT and a FROM token,
\* a token being a longest run of letters, digits and underscores.
letters_lower == "abcdefghijklmnopqrstuvwxyz"
letters_upper == "ABCDEFGHIJKLMNOPQRSTUVWXYZ"
word_characters == letters_lower \o letters_upper \o "0123456789_"

upper_character(c) ==
    IF index_of(letters_lower, c, 1) = 0 THEN c
    ELSE slice(letters_upper, index_of(letters_lower, c, 1),
               index_of(letters_lower, c, 1))

\* The tokens of t from its i-th character on, in upper case; `token` is the
\* run of word characters that ends before i.
RECURSIVE tokens_from(_, _, _)
tokens_from(t, i, token) ==
    IF i > Len(t) THEN {token} \ {""}
    ELSE IF index_of(word_characters, slice(t, i, i), 1) # 0
    THEN tokens_from(t, i + 1, token \o upper_character(slice(t, i, i)))
    ELSE ({token} \ {""}) \cup tokens_from(t, i + 1, "")

has_select_and_from(query) ==
    {"SELECT", "FROM"} \subseteq tokens_from(query, 1, "")

\* Line 329, `if user_query:`: the text area's text is validated when it is
\* not empty.
submits(query) == query # ""

\* The responses the service is asked for in a run: one per call made.
no_response == [kind |-> "none", content |-> ""]
generation_responses(button) ==
    IF ~falsy(industry) /\ (button \/ falsy(current_question))
    THEN GenResponses ELSE {no_response}
no_judgement == [kind |-> "none", keys |-> {}, is_correct |-> FALSE]
validator_responses(query) ==
    IF submits(query) THEN ValidatorResponses ELSE {no_judgement}

\* Mutant: the session keeps the label the select box displays.
StartTraining_stores_label(ind, diff) ==
    /\ ~rerun
    /\ falsy(industry)
    /\ industry' = title(ind)
    /\ difficulty' = diff
    /\ rerun' = TRUE
    /\ out' = quiet("start")
    /\ UNCHANGED <<current_question, current_solution, user_stats, generation>>

\* Lines 286-289: "Start Training" on the welcome screen.
StartTraining(ind, diff) ==
    /\ ~rerun
    /\ falsy(industry)
    /\ industry' = ind
    /\ difficulty' = diff
    /\ rerun' = TRUE
    /\ out' = quiet("start")
    /\ UNCHANGED <<current_question, current_solution, user_stats, generation>>

\* A run in which no button is pressed and no slider has moved: the run
\* st.rerun() starts, or one started by an edit of the text area.
Run(g) ==
    /\ rerun' = FALSE
    /\ IF falsy(industry)
       THEN /\ out' = quiet("run")
            /\ UNCHANGED <<industry, current_question, current_solution, difficulty,
                           user_stats, generation>>
       ELSE LET n == new_question_step(FALSE, g) IN
            /\ current_question' = n.question
            /\ current_solution' = n.solution
            /\ generation' = n.generation
            /\ out' = [quiet("run") EXCEPT !.generated = n.generated,
                                           !.generation_error = n.error,
                                           !.rendered = n.rendered]
            /\ UNCHANGED <<industry, difficulty, user_stats>>

\* Line 307: "Get New Question".
GetNewQuestion(g) ==
    /\ ~rerun
    /\ ~falsy(industry)
    /\ LET n == new_question_step(TRUE, g) IN
       /\ current_question' = n.question
       /\ current_solution' = n.solution
       /\ generation' = n.generation
       /\ out' = [quiet("new_question") EXCEPT !.generated = n.generated,
                                               !.generation_error = n.error,
                                               !.rendered = n.rendered]
    /\ UNCHANGED <<industry, difficulty, user_stats, rerun>>

\* Lines 328-343: "Submit Query" with the text area holding `query`.
SubmitQuery(query, g, v) ==
    /\ ~rerun
    /\ ~falsy(industry)
    /\ user_stats.total_attempts < MaxAttempts
    /\ LET n == new_question_step(FALSE, g)
           r == validate_sql(query, industry, n.question, n.solution, user_stats, v)
           o == [quiet("submit") EXCEPT !.input = query,
                                        !.generated = n.generated,
                                        !.generation_error = n.error,
                                        !.rendered = n.rendered]
       IN
       /\ current_question' = n.question
       /\ current_solution' = n.solution
       /\ generation' = n.generation
       /\ IF submits(query)
          THEN /\ user_stats' = r.user_stats
               /\ out' = [o EXCEPT !.validated = TRUE,
                                   !.question = n.question,
                                   !.reference = n.solution,
                                   !.validation_error = r.error,
                                   !.has_feedback = TRUE,
                                   !.feedback = r.feedback,
                                   !.raised = display_feedback_raises(r.feedback),
                                   !.rendered = @ \cup {industry}]
          ELSE /\ user_stats' = user_stats
               /\ out' = o
    /\ UNCHANGED <<industry, difficulty, rerun>>

\* Mutant: the button counts as an attempt.
ShowSolution_counts_attempt(g) ==
    /\ ~rerun
    /\ ~falsy(industry)
    /\ LET n == new_question_step(FALSE, g) IN
       /\ current_question' = n.question
       /\ current_solution' = n.solution
       /\ generation' = n.generation
       /\ out' = [quiet("show_solution") EXCEPT !.generated = n.generated,
                                                !.generation_error = n.error,
                                                !.rendered = n.rendered,
                                                !.solution_shown = n.solution]
    /\ user_stats' = count_attempt(user_stats)
    /\ UNCHANGED <<industry, difficulty, rerun>>

\* Mutant: the button displays a fixed text in place of the solution.
ShowSolution_hint_unavailable(g) ==
    /\ ~rerun
    /\ ~falsy(industry)
    /\ LET n == new_question_step(FALSE, g) IN
       /\ current_question' = n.question
       /\ current_solution' = n.solution
       /\ generation' = n.generation
       /\ out' = [quiet("show_solution") EXCEPT !.generated = n.generated,
                                                !.generation_error = n.error,
                                                !.rendered = n.rendered,
                                                !.solution_shown = "hint unavailable"]
    /\ UNCHANGED <<industry, difficulty, user_stats, rerun>>

\* Lines 345-347: "Show Solution".
ShowSolution(g) ==
    /\ ~rerun
    /\ ~falsy(industry)
    /\ LET n == new_question_step(FALSE, g) IN
       /\ current_question' = n.question
       /\ current_solution' = n.solution
       /\ generation' = n.generation
       /\ out' = [quiet("show_solution") EXCEPT !.generated = n.generated,
                                                !.generation_error = n.error,
                                                !.rendered = n.rendered,
                                                !.solution_shown = n.solution]
    /\ UNCHANGED <<industry, difficulty, user_stats, rerun>>

\* Mutant: the slider's handler keeps the current question.
AdjustDifficulty_keeps_question(level, g) ==
    /\ ~rerun
    /\ ~falsy(industry)
    /\ level # difficulty
    /\ LET n == new_question_step(FALSE, g) IN
       /\ current_question' = n.question
       /\ current_solution' = n.solution
       /\ generation' = n.generation
       /\ out' = [quiet("difficulty") EXCEPT !.input = level,
                                             !.generated = n.generated,
                                             !.generation_error = n.error,
                                             !.rendered = n.rendered]
    /\ difficulty' = level
    /\ rerun' = TRUE
    /\ UNCHANGED <<industry, user_stats>>

\* Lines 352-362: the difficulty slider moved to `level`.
AdjustDifficulty(level, g) ==
    /\ ~rerun
    /\ ~falsy(industry)
    /\ level # difficulty
    /\ LET n == new_question_step(FALSE, g) IN
       /\ current_solution' = n.solution
       /\ generation' = n.generation
       /\ out' = [quiet("difficulty") EXCEPT !.input = level,
                                             !.generated = n.generated,
                                             !.generation_error = n.error,
                                             !.rendered = n.rendered]
    /\ difficulty' = level
    /\ current_question' = None
    /\ rerun' = TRUE
    /\ UNCHANGED <<industry, user_stats>>

\* Mutant: the button leaves the current question in place.
ChangeIndustry_keeps_question(g) ==
    /\ ~rerun
    /\ ~falsy(industry)
    /\ LET n == new_question_step(FALSE, g) IN
       /\ current_question' = n.question
       /\ current_solution' = n.solution
       /\ generation' = n.generation
       /\ out' = [quiet("industry") EXCEPT !.generated = n.generated,
                                           !.generation_error = n.error,
                                           !.rendered = n.rendered]
    /\ industry' = None
    /\ rerun' = TRUE
    /\ UNCHANGED <<difficulty, user_stats>>

\* Mutant: the button starts the progress record afresh.
ChangeIndustry_resets_progress(g) ==
    /\ ~rerun
    /\ ~falsy(industry)
    /\ LET n == new_question_step(FALSE, g) IN
       /\ current_solution' = n.solution
       /\ generation' = n.generation
       /\ out' = [quiet("industry") EXCEPT !.generated = n.generated,
                                           !.generation_error = n.error,
                                           !.rendered = n.rendered]
    /\ industry' = None
    /\ current_question' = None
    /\ rerun' = TRUE
    /\ user_stats' = [total_attempts |-> 0, correct_answers |-> 0,
                      questions_history |-> <<>>]
    /\ UNCHANGED difficulty

\* Lines 364-368: "Change Industry".
ChangeIndustry(g) ==
    /\ ~rerun
    /\ ~falsy(industry)
    /\ LET n == new_question_step(FALSE, g) IN
       /\ current_solution' = n.solution
       /\ generation' = n.generation
       /\ out' = [quiet("industry") EXCEPT !.generated = n.generated,
                                           !.generation_error = n.error,
                                           !.rendered = n.rendered]
    /\ industry' = None
    /\ current_question' = None
    /\ rerun' = TRUE
    /\ UNCHANGED <<difficulty, user_stats>>

-----------------------------------------------------------------------------
Init ==
    /\ industry = None
    /\ current_question = None
    /\ current_solution = None
    /\ difficulty = "medium"
    /\ user_stats = [total_attempts |-> 0, correct_answers |-> 0,
                     questions_history |-> <<>>]
    /\ rerun = FALSE
    /\ out = quiet("init")
    /\ generation = [industry |-> None, difficulty |-> None, question |-> None,
                     solution |-> None, error |-> FALSE]

Next ==
    \/ \E ind \in Industries, diff \in Difficulties : StartTraining(ind, diff)
    \/ \E g \in generation_responses(FALSE) : Run(g)
    \/ \E g \in generation_responses(TRUE) : GetNewQuestion(g)
    \/ \E query \in Queries, g \in generation_responses(FALSE) :
          \E v \in validator_responses(query) : SubmitQuery(query, g, v)
    \/ \E g \in generation_responses(FALSE) : ShowSolution(g)
    \/ \E level \in Difficulties, g \in generation_responses(FALSE) :
          AdjustDifficulty(level, g)
    \/ \E g \in generation_responses(FALSE) : ChangeIndustry(g)

Spec == Init /\ [][Next]_vars

-----------------------------------------------------------------------------
(* The session states: the welcome screen is shown while industry is falsy  *)
(* (line 263), a question is generated while current_question is falsy      *)
(* (line 307), and a session is Submitted when its last run was a submit.   *)
SessionState ==
    IF falsy(industry) THEN "NoIndustry"
    ELSE IF falsy(current_question) THEN "AwaitingQuestion"
    ELSE IF out.op = "submit" THEN "Submitted"
    ELSE "QuestionReady"

\* The progress record.
total_attempts == user_stats.total_attempts
correct_count == user_stats.correct_answers
history == user_stats.questions_history

-----------------------------------------------------------------------------
\* C1: in every reachable state, whatever the operations and whatever the
\* validator answered, 0 <= correct_count <= total_attempts.
C1_CorrectWithinAttempts ==
    /\ correct_count \in Nat
    /\ total_attempts \in Nat
    /\ correct_count <= total_attempts

\* A submit whose judgement was malformed, after a submit judged correct.
C1_Witness ==
    /\ out.op = "submit"
    /\ out.validation_error
    /\ total_attempts = 2
    /\ correct_count = 1

-----------------------------------------------------------------------------
\* C2: a non-empty submission that does not hold both a SELECT and a FROM
\* token never reaches the remote validator and never changes total_attempts.
C2_NoRemoteCallWithoutSelectFrom ==
    [][ (out'.op = "submit" /\ out'.input # "" /\ ~has_select_and_from(out'.input))
        => (~out'.validated /\ user_stats'.total_attempts = total_attempts) ]_vars

-----------------------------------------------------------------------------
\* C3: submitting "" with a question current yields a feedback with
\* is_correct = false and the message "Query cannot be empty", calls no
\* remote validator and leaves the progress record unchanged.
C3_EmptyQueryFeedback ==
    [][ (out'.op = "submit" /\ out'.input = "" /\ ~falsy(current_question))
        => /\ out'.has_feedback
           /\ ~out'.feedback.is_correct
           /\ out'.feedback.feedback = "Query cannot be empty"
           /\ ~out'.validated
           /\ user_stats' = user_stats ]_vars

-----------------------------------------------------------------------------
\* C4: when a new question is requested while a question is current and the
\* generation fails, the current question and its reference solution stay as
\* they were: the error outcome is not stored as the current question.
C4_FailedGenerationKeepsQuestion ==
    [][ (out'.op = "new_question" /\ out'.generation_error /\ ~falsy(current_question))
        => /\ current_question' = current_question
           /\ current_solution' = current_solution ]_vars

-----------------------------------------------------------------------------
\* C5: moving the difficulty to another level while a question is current
\* clears current_question, sets difficulty to the level and leaves the
\* session in AwaitingQuestion; and a submit or a solution display is served
\* only with a question present that the last generation call produced for
\* the current difficulty.
C5_ChangeDifficultyClearsQuestion ==
    [][ /\ (out'.op = "difficulty" /\ current_question # None)
           => /\ current_question' = None
              /\ difficulty' = out'.input
              /\ difficulty' # difficulty
              /\ SessionState' = "AwaitingQuestion"
        /\ out'.op \in {"submit", "show_solution"}
           => /\ current_question # None
              /\ current_question' # None
              /\ generation'.difficulty = difficulty'
              /\ generation'.question = current_question' ]_vars

\* The slider moved to "hard" while a question was current.
C5_Witness ==
    /\ out.op = "difficulty"
    /\ out.input = "hard"
    /\ difficulty = "hard"
    /\ current_question = None
    /\ generation.question = QuestionA
    /\ SessionState = "AwaitingQuestion"

-----------------------------------------------------------------------------
\* C6: a submit whose remote validation completes with a judgement adds 1 to
\* total_attempts, adds 1 to correct_count exactly when the judgement is
\* correct, and appends one history entry with the current question (the one
\* the session holds when the validator is called, which is the one it held
\* before the run unless the run had to generate one), the submitted query
\* and the verdict.
C6_OneRecordPerJudgement ==
    [][ (out'.op = "submit" /\ out'.validated /\ ~out'.validation_error)
        => /\ user_stats'.total_attempts = total_attempts + 1
           /\ user_stats'.correct_answers =
                 IF out'.feedback.is_correct THEN correct_count + 1 ELSE correct_count
           /\ user_stats'.questions_history =
                 Append(history, [question |-> current_question',
                                  user_query |-> out'.input,
                                  correct |-> out'.feedback.is_correct])
           /\ ~out'.generated => current_question' = current_question ]_vars

\* Logistics, easy: a query judged wrong, then the query judged correct.
C6_Witness ==
    /\ industry = "logistics"
    /\ difficulty = "easy"
    /\ out.op = "submit"
    /\ out.feedback.is_correct
    /\ total_attempts = 2
    /\ correct_count = 1
    /\ history = <<[question |-> QuestionA, user_query |-> "UPDATE t SET x=1", correct |-> FALSE],
                   [question |-> QuestionA, user_query |-> "UPDATE t SET x=1", correct |-> TRUE]>>

-----------------------------------------------------------------------------
\* C7: when the validator call fails or its response does not have the
\* judgement's shape, submit raises nothing and returns the feedback of the
\* error case (is_correct = false with an explanatory message), and industry,
\* difficulty and current_question are unchanged.
C7_ValidationFailureIsFeedback ==
    [][ (/\ out'.op = "submit"
         /\ out'.validated
         /\ (out'.validation_error \/ out'.feedback.keys # JudgementKeys))
        => /\ ~out'.raised
           /\ out'.has_feedback
           /\ ~out'.feedback.is_correct
           /\ out'.feedback.feedback = error_feedback.feedback
           /\ industry' = industry
           /\ difficulty' = difficulty
           /\ current_question' = current_question ]_vars

-----------------------------------------------------------------------------
\* C8 (two submits of one session are never interleaved) has no formula: each
\* action here is one whole script run, and whether two runs of main() can
\* overlap is decided by the Streamlit runtime, not by src/app.py.

-----------------------------------------------------------------------------
\* The text the program prints for "logistics", line by line.
logistics_prompt ==
    <<"Database Schema for Logistics:",
      "",
      "Description: Logistics and warehouse management system tracking inventory, shipments, and carriers.",
      "",
      "Tables:",
      "- warehouses",
      "  |_ warehouse_id", "  |_ name", "  |_ location", "  |_ capacity",
      "- inventory",
      "  |_ item_id", "  |_ warehouse_id", "  |_ product_name", "  |_ quantity", "  |_ reorder_point",
      "- shipments",
      "  |_ shipment_id", "  |_ origin_warehouse", "  |_ destination", "  |_ status", "  |_ carrier_id",
      "- carriers",
      "  |_ carrier_id", "  |_ name", "  |_ service_level", "  |_ cost_per_mile",
      "",
      "Relationships:",
      "- inventory.warehouse_id -> warehouses.warehouse_id",
      "- shipments.origin_warehouse -> warehouses.warehouse_id",
      "- shipments.carrier_id -> carriers.carrier_id">>

\* The lines of text that are one of `wanted`, in the order they have in text.
lines_among(text, wanted) ==
    LET keep(line) == line \in wanted IN SelectSeq(text, keep)

\* text lists the tables of schema, then its relationships, each in the
\* descriptor's order, and ends with the last relationship.
tables_then_relationships(text, schema) ==
    LET table_names == [k \in 1..Len(schema.tables) |-> "- " \o schema.tables[k][1]]
        relations == [k \in 1..Len(schema.relationships) |-> "- " \o schema.relationships[k]]
        at(line) == {k \in 1..Len(text) : text[k] = line}
    IN  /\ Cardinality(at("Tables:")) = 1
        /\ Cardinality(at("Relationships:")) = 1
        /\ \A t \in at("Tables:"), r \in at("Relationships:") :
              /\ t < r
              /\ lines_among(SubSeq(text, t + 1, r - 1),
                             {table_names[k] : k \in DOMAIN table_names}) = table_names
              /\ lines_among(SubSeq(text, 1, t), {relations[k] : k \in DOMAIN relations}) = <<>>
              /\ SubSeq(text, r + 1, Len(text)) = relations

\* C9: in every reachable state get_schema_prompt returns, for each industry
\* of the catalog, one and the same text, the tables first and then the
\* relationships in the descriptor's order; it is called for catalog
\* industries only, and only by runs that generate or validate.
C9_PromptIsFunctionOfDescriptor ==
    /\ out.rendered \subseteq Industries
    /\ out.rendered # {} => (out.generated \/ out.validated)
    /\ get_schema_prompt("logistics") = logistics_prompt
    /\ \A i \in Industries :
          tables_then_relationships(get_schema_prompt(i), industry_schemas[i])

\* The prompt was rendered for a validation request of a healthcare session
\* after an earlier attempt had been recorded.
C9_Witness ==
    /\ out.op = "submit"
    /\ out.validated
    /\ out.rendered = {"healthcare"}
    /\ total_attempts = 2

-----------------------------------------------------------------------------
\* C10: the number of history entries equals total_attempts and the number
\* of history entries with correct = true equals correct_count.
C10_ProgressRecordWhole ==
    /\ Len(history) = total_attempts
    /\ Cardinality({i \in 1..Len(history) : history[i].correct}) = correct_count

-----------------------------------------------------------------------------
\* a is b, or b with entries removed from its end.
is_prefix(a, b) == Len(a) <= Len(b) /\ SubSeq(b, 1, Len(a)) = a

\* C11: no run of the script, whatever its operation and whether its
\* generation or validation fails, decreases total_attempts or correct_count,
\* and the history before the run is a prefix of the history after it.
C11_ProgressOnlyGrows ==
    [][ /\ user_stats'.total_attempts >= total_attempts
        /\ user_stats'.correct_answers >= correct_count
        /\ is_prefix(history, user_stats'.questions_history) ]_vars

\* The industry was changed with two entries in the history, one of them of
\* a question whose generation had failed.
C11_Witness ==
    /\ out.op = "industry"
    /\ industry = None
    /\ total_attempts = 2
    /\ correct_count = 1
    /\ Len(history) = 2
    /\ history[1].question = generation_failure.question
    /\ history[2].question = QuestionA

-----------------------------------------------------------------------------
\* C12: when a question is generated while there is none (AwaitingQuestion)
\* and the generation fails, the session has no current question afterwards
\* and stays in AwaitingQuestion; and no submission is validated against the
\* error placeholder or against an empty reference solution.
C12_FailedGenerationLeavesNoQuestion ==
    [][ /\ (out'.generated /\ out'.generation_error /\ falsy(current_question)
            /\ out'.op \in {"run", "new_question"})
           => /\ falsy(current_question')
              /\ SessionState' = "AwaitingQuestion"
        /\ (out'.op = "submit" /\ out'.validated)
           => /\ out'.question # generation_failure.question
              /\ ~falsy(out'.reference) ]_vars

-----------------------------------------------------------------------------
\* A question with its reference solution, neither of them empty.
filled(question, solution) == ~falsy(question) /\ ~falsy(solution)

\* C13: every generation either fails or stores a question text and a
\* solution text that are both non-empty; and in every reachable state the
\* current question is absent or has a non-empty text and a non-empty
\* reference solution.
C13_NoPartialQuestion ==
    /\ [][ (out'.generated /\ ~out'.generation_error /\ out'.op \in {"run", "new_question"})
            => filled(current_question', current_solution') ]_vars
    /\ [](current_question = None \/ filled(current_question, current_solution))

-----------------------------------------------------------------------------
\* C14: the validator is called only by a submit made in QuestionReady or
\* Submitted: the session has an industry and a current question before the
\* run, and the validator is given a question.
C14_ValidatorNeedsQuestion ==
    [][ out'.validated
        => /\ SessionState \in {"QuestionReady", "Submitted"}
           /\ ~falsy(industry')
           /\ ~falsy(out'.question) ]_vars

-----------------------------------------------------------------------------
\* C15: in every reachable state a current question is the question of the
\* last generation call, and that call was made for the session's industry
\* and difficulty; and a session with no industry has no current question.
C15_QuestionOfCurrentIndustryAndDifficulty ==
    /\ current_question # None
          => /\ generation.question = current_question
             /\ generation.industry = industry
             /\ generation.difficulty = difficulty
    /\ falsy(industry) => current_question = None

\* A question generated for healthcare at "easy" in a session that had
\* recorded an attempt on a question generated before.
C15_Witness ==
    /\ out.op = "run"
    /\ out.generated
    /\ current_question = QuestionA
    /\ industry = "healthcare"
    /\ difficulty = "easy"
    /\ generation.industry = "healthcare"
    /\ generation.difficulty = "easy"
    /\ Len(history) = 1

-----------------------------------------------------------------------------
\* C16: "Change Industry" sets industry and current_question to none, which
\* puts the session in NoIndustry, and leaves the progress record as it was.
C16_ChangeIndustryKeepsProgress ==
    [][ out'.op = "industry"
        => /\ industry' = None
           /\ current_question' = None
           /\ SessionState' = "NoIndustry"
           /\ user_stats' = user_stats ]_vars

\* The industry was changed after two attempts, one of them with a malformed
\* judgement.
C16_Witness ==
    /\ out.op = "industry"
    /\ SessionState = "NoIndustry"
    /\ current_question = None
    /\ total_attempts = 2
    /\ correct_count = 1
    /\ Len(history) = 1

-----------------------------------------------------------------------------
\* C17: "Show Solution" (the button of the hint column), pressed with a
\* question current, changes nothing of st.session_state: industry,
\* difficulty, current_question, current_solution and the progress record are
\* as before, no service is called, and the session still has its question.
C17_ShowSolutionChangesNothing ==
    [][ (out'.op = "show_solution" /\ SessionState \in {"QuestionReady", "Submitted"})
        => /\ industry' = industry
           /\ difficulty' = difficulty
           /\ current_question' = current_question
           /\ current_solution' = current_solution
           /\ user_stats' = user_stats
           /\ ~out'.generated /\ ~out'.validated
           /\ SessionState' \in {"QuestionReady", "Submitted"} ]_vars

\* The solution was shown in a session with a recorded attempt.
C17_Witness ==
    /\ out.op = "show_solution"
    /\ ~out.generated
    /\ current_question = QuestionA
    /\ total_attempts = 1
    /\ Len(history) = 1

-----------------------------------------------------------------------------
\* C18, as stated: the text the hint button returns is never the reference
\* solution of the current question.
C18_HintNeverSolution ==
    out.op = "show_solution" => out.solution_shown # current_solution

\* C18, amended: the text the hint button (Show Solution) displays is in
\* every reachable state the stored reference solution of the current
\* question, verbatim, and no validation is made for it.
C18_HintIsStoredSolution ==
    out.op = "show_solution"
       => /\ out.solution_shown = current_solution
          /\ out.solution_shown # None
          /\ ~out.validated

\* The reference solution of the current question was displayed.
C18_Witness ==
    /\ out.op = "show_solution"
    /\ current_question = QuestionA
    /\ current_solution = SolutionA
    /\ out.solution_shown = SolutionA

-----------------------------------------------------------------------------
\* C19: in every reachable state a current question and the stored solution
\* are the pair of one generation call (the last one); the validator is
\* given that pair and the solution displayed is that solution.
C19_SolutionBelongsToQuestion ==
    /\ current_question # None
          => /\ generation.question = current_question
             /\ generation.solution = current_solution
    /\ out.validated
          => /\ out.question = generation.question
             /\ out.reference = generation.solution
    /\ out.op = "show_solution" => out.solution_shown = generation.solution

\* A submission validated against a question and its solution, in a session
\* whose earlier question was the placeholder of a failed generation, stored
\* with the empty solution.
C19_Witness ==
    /\ out.op = "submit"
    /\ out.validated
    /\ out.question = QuestionA
    /\ out.reference = SolutionA
    /\ Len(history) = 2
    /\ history[1].question = generation_failure.question
    /\ history[2].question = QuestionA

-----------------------------------------------------------------------------
\* C20: in every reachable state industry is none or a key of the catalog
\* and difficulty is a key of difficulty_adjustments (medium, with no
\* industry, in a fresh session); every generation and every rendering was
\* made with such keys.
C20_IndustryAndDifficultyAreKeys ==
    /\ industry \in {None} \cup DOMAIN industry_schemas
    /\ difficulty \in DOMAIN difficulty_adjustments
    /\ difficulty \in {"easy", "medium", "hard"}
    /\ out.op = "init" => (industry = None /\ difficulty = "medium")
    /\ out.rendered \subseteq DOMAIN industry_schemas
    /\ out.generated
          => /\ generation.industry \in DOMAIN industry_schemas
             /\ generation.difficulty \in DOMAIN difficulty_adjustments

\* A question was generated for healthcare at "hard".
C20_Witness ==
    /\ industry = "healthcare"
    /\ difficulty = "hard"
    /\ out.generated
    /\ out.rendered = {"healthcare"}
    /\ generation.difficulty = "hard"
====
